---- MODULE Spec2Model ----
(***************************************************************************)
(* Krishna GPT backend (src/main.py): the teaching-selection engine        *)
(* (tokenize, synonym expansion, scored scan, tie-break, fallback) and the *)
(* POST /api/ask handler that composes the answer and logs the exchange.   *)
(*                                                                         *)
(* Text is modelled as TLA+ strings, which TLC treats as sequences of      *)
(* characters (Len, SubSeq and \o apply to them).  The alphabet is ASCII:  *)
(* letters, digits, the blank, and punctuation.                            *)
(***************************************************************************)
EXTENDS Bags, FiniteSets, Integers, Sequences, TLC

(***************************************************************************)
(* Static tables, src/main.py:36-159                                       *)
(***************************************************************************)

\* GITA_KNOWLEDGE_BASE (main.py:36-145).  Diacritics of the verse and
\* reference texts are transliterated to ASCII; keywords, chapters and
\* image URLs are verbatim.
GITA_KNOWLEDGE_BASE ==
  <<
    [ keywords  |-> << "duty", "dharma", "work", "karma", "action", "responsibility", "job", "career", "study", "studies" >>,
      chapter   |-> "2.47",
      verse     |-> "karmany-evadhikaras te ma phaleshu kadachana",
      reference |-> "Bhagavad-gita 2.47",
      teaching  |-> "O Arjuna, your right is to perform your prescribed duty, but never to the fruits. Perform your work as an offering to Me, free from attachment and anxiety. When action is done in devotion, peace follows like a cool moonlight on a clear night.",
      image_url |-> "https://upload.wikimedia.org/wikipedia/commons/0/08/Kurukshetra_Bhagavad_Gita.jpg" ],
    [ keywords  |-> << "surrender", "take shelter", "refuge", "give up", "fear", "deliver", "save", "forgive", "mercy" >>,
      chapter   |-> "18.66",
      verse     |-> "sarva-dharman parityajya mam ekam sharanam vraja",
      reference |-> "Bhagavad-gita 18.66",
      teaching  |-> "Abandon all varieties of duty and simply take shelter of Me. I shall deliver you from all reactions; do not fear. Offer your heart to Me with trust-when the child holds the father's hand, the road becomes safe.",
      image_url |-> "https://upload.wikimedia.org/wikipedia/commons/4/4d/Krishna_and_Arjuna.jpg" ],
    [ keywords  |-> << "mind", "control", "meditation", "yoga", "practice", "abhyasa", "vairagya", "anxiety", "stress", "overthink" >>,
      chapter   |-> "6.35",
      verse     |-> "asamsayam maha-baho mano durnigraham chalam",
      reference |-> "Bhagavad-gita 6.35",
      teaching  |-> "The mind is restless and difficult to curb, but by constant practice and detachment it can be controlled. Begin with remembrance of Me-chant My names, hear My glories-and the mind, like a wild river, will gently find the ocean of peace.",
      image_url |-> "https://upload.wikimedia.org/wikipedia/commons/7/77/Krishna_Arjuna.jpg" ],
    [ keywords  |-> << "soul", "atma", "death", "birth", "change", "body", "eternal", "rebirth", "reincarnation", "die" >>,
      chapter   |-> "2.20",
      verse     |-> "na jayate mriyate va kadacin",
      reference |-> "Bhagavad-gita 2.20",
      teaching  |-> "The soul is unborn, eternal, ever-existing, and primeval; it is not slain when the body is slain. Grief fades when one knows the self beyond the body-see with wisdom, O Arjuna, and stand steady in your duty.",
      image_url |-> "https://upload.wikimedia.org/wikipedia/commons/9/9a/Bhagavad_Gita_Krishna_Arjuna.jpg" ],
    [ keywords  |-> << "food", "offer", "prayer", "eat", "prasadam", "yajna", "devotion", "diet", "vegetarian", "cook" >>,
      chapter   |-> "9.26",
      verse     |-> "patram pushpam phalam toyam yo me bhaktya prayachchhati",
      reference |-> "Bhagavad-gita 9.26",
      teaching  |-> "If one offers Me with love a leaf, a flower, fruit, or water, I accept it. Cook and eat as an offering to Me; then even simple fare becomes sanctified, and your heart becomes light and joyful.",
      image_url |-> "https://upload.wikimedia.org/wikipedia/commons/1/17/Krishna_with_flute.jpg" ],
    [ keywords  |-> << "devotion", "bhakti", "love", "serve", "chant", "remember", "worship", "faith" >>,
      chapter   |-> "9.34",
      verse     |-> "man-mana bhava mad-bhakto",
      reference |-> "Bhagavad-gita 9.34",
      teaching  |-> "Fix your mind on Me, become My devotee, worship Me, and offer your homage to Me; surely you will come to Me. Keep Me at the center-then your days will become a garland of auspicious moments.",
      image_url |-> "https://upload.wikimedia.org/wikipedia/commons/0/0c/Krishna_and_Radha%2C_19_century%2C_India.jpg" ],
    [ keywords  |-> << "anger", "lust", "greed", "kama", "krodha", "lobha", "desire", "addiction" >>,
      chapter   |-> "3.37",
      verse     |-> "kama esha krodha esha rajo-guna-samudbhavah",
      reference |-> "Bhagavad-gita 3.37",
      teaching  |-> "It is lust only, Arjuna, born of contact with the mode of passion, which later transforms into wrath. Conquer it by regulating the senses and engaging them in My service; then your heart becomes calm like a lotus on the water.",
      image_url |-> "https://upload.wikimedia.org/wikipedia/commons/6/6a/Krishna_Bhagavad_Gita.jpg" ],
    [ keywords  |-> << "equality", "friend", "enemy", "see equally", "humble", "brahmana", "cow", "dog" >>,
      chapter   |-> "5.18",
      verse     |-> "vidya-vinaya-sampanne brahmane gavi hastini",
      reference |-> "Bhagavad-gita 5.18",
      teaching  |-> "The humble sages, by virtue of true knowledge, see with equal vision a learned and gentle brahmana, a cow, an elephant, a dog and a dog-eater. Cultivate respect for all beings and you will feel My presence everywhere.",
      image_url |-> "https://upload.wikimedia.org/wikipedia/commons/4/42/Krishna_with_Arjuna.jpg" ],
    [ keywords  |-> << "service", "seva", "detachment", "renunciation", "work without result", "selfless" >>,
      chapter   |-> "3.19",
      verse     |-> "tasmad asaktah satatam karyam karma samachara",
      reference |-> "Bhagavad-gita 3.19",
      teaching  |-> "Therefore, without being attached to the fruits of activities, one should act as a matter of duty; for by working without attachment, one attains the Supreme. Convert every task into service and you will feel light.",
      image_url |-> "https://upload.wikimedia.org/wikipedia/commons/3/3b/Krishna_and_Arjuna_in_chariot.jpg" ]
  >>

\* STOPWORDS (main.py:148-150)
STOPWORDS ==
  { "a", "an", "the", "of", "to", "in", "is", "are", "am", "and", "or", "for",
    "with", "on", "at", "by", "from", "that", "this", "those", "these", "it",
    "as", "be", "was", "were", "have", "has", "had", "do", "does", "did",
    "not", "no", "can", "could", "should", "would", "may", "might", "will",
    "shall", "my", "me", "i", "you", "your", "our", "us", "we" }

\* SYNONYMS (main.py:152-159): canonical token k with its alias list syns,
\* in dict insertion order.
SYNONYMS ==
  <<
    [ k |-> "duty", syns |-> << "work", "job", "career", "study", "responsibility", "task" >> ],
    [ k |-> "surrender", syns |-> << "refuge", "shelter", "give up", "trust", "faith" >> ],
    [ k |-> "mind", syns |-> << "anxiety", "stress", "thoughts", "overthink" >> ],
    [ k |-> "soul", syns |-> << "self", "atma", "spirit" >> ],
    [ k |-> "devotion", syns |-> << "bhakti", "worship", "love", "remember" >> ],
    [ k |-> "anger", syns |-> << "lust", "greed", "desire" >> ]
  >>

(***************************************************************************)
(* Bounds and input pools                                                  *)
(***************************************************************************)

\* Number of request-handling contexts that may run ask_krishna at once.
NumContexts == 2

\* Longest phrase, in vocabulary words, of a generated question.
MaxWords == 2

\* Largest query set explored by the scorer specification.
MaxQuery == 3

Contexts == 1..NumContexts

\* Python's None (an absent conversation_id).
None == "<None>"

\* Words questions are built from: function words, keywords shorter and
\* longer than four letters, words containing a keyword, an alias, upper
\* case and punctuation.
Vocabulary ==
  << "the", "it", "job", "fear", "die", "cook", "dog", "lovely",
     "surrendering", "karma", "Mind,", "hello" >>

RECURSIVE Phrases(_)
Phrases(n) ==
  IF n = 0 THEN { "" }
  ELSE LET shorter == Phrases(n - 1)
       IN  shorter \cup
           { IF p = "" THEN Vocabulary[i] ELSE p \o " " \o Vocabulary[i] :
               p \in shorter, i \in 1..Len(Vocabulary) }

Range(s) == { s[i] : i \in 1..Len(s) }

\* Every member of every synonym cluster, asked on its own.
ClusterMembers ==
  UNION { {SYNONYMS[c].k} \cup Range(SYNONYMS[c].syns) : c \in 1..Len(SYNONYMS) }

\* The end-to-end example of the documentation and other fixed questions.
JobQuestion == "I am stressed about my job, what should I do?"

FixedQuestions ==
  { JobQuestion, "the a of it", "?!", "a", " a ", "  ", "What is my Duty?",
    "fear,die", "I feel stressed", "love", "coward", "Surrender  to  Me." }

\* Questions of the matcher specification.
Questions == Phrases(MaxWords) \cup ClusterMembers \cup FixedQuestions

\* Questions of the concurrent specification.
FewQuestions == { "a", " a ", "the a of it", "my job" }

ConversationIds == { None, "", "c1" }

\* Conversation ids of the concurrent specification.
FewConversationIds == { None, "c1" }

\* Outcomes of one create_document call: the document is stored, the call
\* raises before storing, or it raises after the document was stored.
Outcomes == { "ok", "raise", "stored_then_raise" }

(***************************************************************************)
(* Text helpers: str.isalnum, str.isspace, str.lower, str.split, str.strip *)
(***************************************************************************)

CharAt(s, i) == SubSeq(s, i, i)

Rest(s) == SubSeq(s, 2, Len(s))

CharsOf(s) == { CharAt(s, i) : i \in 1..Len(s) }

LowerCase == "abcdefghijklmnopqrstuvwxyz"

UpperCase == "ABCDEFGHIJKLMNOPQRSTUVWXYZ"

AlnumChars == CharsOf(LowerCase) \cup CharsOf(UpperCase) \cup CharsOf("0123456789")

isalnum(ch) == ch \in AlnumChars

isspace(ch) == ch = " "

lower(ch) ==
  IF \E i \in 1..26 : CharAt(UpperCase, i) = ch
  THEN CharAt(LowerCase, CHOOSE i \in 1..26 : CharAt(UpperCase, i) = ch)
  ELSE ch

\* str.split(): the maximal runs of non-blank characters, in order.
RECURSIVE split(_, _)
split(t, cur) ==
  IF t = ""
  THEN IF cur = "" THEN << >> ELSE << cur >>
  ELSE IF isspace(CharAt(t, 1))
       THEN IF cur = "" THEN split(Rest(t), "")
                        ELSE << cur >> \o split(Rest(t), "")
       ELSE split(Rest(t), cur \o CharAt(t, 1))

\* str.strip(): drop leading and trailing blanks.
RECURSIVE strip(_)
strip(s) ==
  IF s = "" THEN ""
  ELSE IF isspace(CharAt(s, 1)) THEN strip(Rest(s))
  ELSE IF isspace(CharAt(s, Len(s))) THEN strip(SubSeq(s, 1, Len(s) - 1))
  ELSE s

\* k in w, for strings.
substring(k, w) ==
  \E i \in 1..(Len(w) - Len(k) + 1) : SubSeq(w, i, i + Len(k) - 1) = k

(***************************************************************************)
(* State                                                                   *)
(***************************************************************************)

VARIABLES
  service,        \* "starting" until the module is loaded, then "serving"
  knowledge_base, \* the module global GITA_KNOWLEDGE_BASE
  synonyms,       \* the module global SYNONYMS
  stopwords,      \* the module global STOPWORDS
  pc,             \* per context: position inside ask_krishna
  req,            \* per context: the AskRequest being handled
  question,       \* per context: req.question.strip()
  match,          \* per context: the locals of select_teaching at its return
  answer,         \* per context: the composed answer
  failed,         \* per context: whether the except branch was taken
  response,       \* per context: the HTTP response
  messages,       \* the "message" collection of the store, a bag of documents
  scorer          \* scorer specification: an entry, a query set, its score

vars ==
  << service, knowledge_base, synonyms, stopwords, pc, req, question, match,
     answer, failed, response, messages, scorer >>

(***************************************************************************)
(* tokenize, main.py:162-165                                               *)
(***************************************************************************)

\* main.py:163: punctuation becomes a blank, everything else is lowercased.
RECURSIVE normalize(_)
normalize(text) ==
  IF text = "" THEN ""
  ELSE (IF isalnum(CharAt(text, 1)) \/ isspace(CharAt(text, 1))
        THEN lower(CharAt(text, 1)) ELSE " ") \o normalize(Rest(text))

tokenize(text) ==
  SelectSeq(split(normalize(text), ""), LAMBDA w : w # "" /\ w \notin stopwords)

(***************************************************************************)
(* select_teaching, main.py:168-196                                        *)
(***************************************************************************)

\* Variant of expand_word that expands a word only when it is the canonical
\* token of a cluster, never when it is an alias.
RECURSIVE expand_word_canonical_only(_, _)
expand_word_canonical_only(w, c) ==
  IF c > Len(synonyms) THEN << >>
  ELSE (IF w = synonyms[c].k
        THEN << synonyms[c].k >> \o synonyms[c].syns
        ELSE << >>) \o expand_word_canonical_only(w, c + 1)

\* main.py:174-177: what one word appends for the clusters c, c+1, ...
RECURSIVE expand_word(_, _)
expand_word(w, c) ==
  IF c > Len(synonyms) THEN << >>
  ELSE (IF w = synonyms[c].k \/ w \in Range(synonyms[c].syns)
        THEN << synonyms[c].k >> \o synonyms[c].syns
        ELSE << >>) \o expand_word(w, c + 1)

\* main.py:171-177: the list `expanded`.
RECURSIVE expand(_)
expand(words) ==
  IF words = << >> THEN << >>
  ELSE << Head(words) >> \o expand_word(Head(words), 1) \o expand(Tail(words))

\* Variant of score whose partial credit starts at keywords of length 4.
score_len_ge_4(item, qset) ==
  LET kw == Range(item.keywords)
  IN  Cardinality(qset \cap kw)
      + Cardinality({ kwp \in kw \X qset :
                        Len(kwp[1]) >= 4 /\ substring(kwp[1], kwp[2]) })

\* Variant of score that counts the symmetric difference (qset ^ kw) in
\* place of the intersection (qset & kw).
score_symmetric_difference(item, qset) ==
  LET kw == Range(item.keywords)
  IN  Cardinality((qset \ kw) \cup (kw \ qset))
      + Cardinality({ kwp \in kw \X qset :
                        Len(kwp[1]) > 4 /\ substring(kwp[1], kwp[2]) })

\* main.py:183-186: exact matches plus partial credit.
score(item, qset) ==
  LET kw == Range(item.keywords)
  IN  Cardinality(qset \cap kw)
      + Cardinality({ kwp \in kw \X qset :
                        Len(kwp[1]) > 4 /\ substring(kwp[1], kwp[2]) })

\* Variant of keep_best that compares with >=, so that a later entry with
\* an equal score replaces the current best.
keep_best_ge(st, i, s) ==
  IF s >= st.best_score
  THEN [ best |-> i, best_score |-> s, scores |-> Append(st.scores, s) ]
  ELSE [ st EXCEPT !.scores = Append(@, s) ]

\* main.py:187-189: best = 0 stands for None, otherwise the position of the
\* entry in the knowledge base; scores records every score of the loop.
keep_best(st, i, s) ==
  IF s > st.best_score
  THEN [ best |-> i, best_score |-> s, scores |-> Append(st.scores, s) ]
  ELSE [ st EXCEPT !.scores = Append(@, s) ]

\* main.py:180-189
RECURSIVE scan(_, _, _)
scan(qset, i, st) ==
  IF i > Len(knowledge_base) THEN st
  ELSE scan(qset, i + 1, keep_best(st, i, score(knowledge_base[i], qset)))

\* Variant of fallback that overrides the scan only below zero.
fallback_below_zero(best, best_score) ==
  IF best_score < 0
     /\ \E i \in 1..Len(knowledge_base) : knowledge_base[i].chapter = "18.66"
  THEN CHOOSE i \in 1..Len(knowledge_base) :
         /\ knowledge_base[i].chapter = "18.66"
         /\ \A j \in 1..(i - 1) : knowledge_base[j].chapter # "18.66"
  ELSE best

\* main.py:191-195
fallback(best, best_score) ==
  IF best_score <= 0
     /\ \E i \in 1..Len(knowledge_base) : knowledge_base[i].chapter = "18.66"
  THEN CHOOSE i \in 1..Len(knowledge_base) :
         /\ knowledge_base[i].chapter = "18.66"
         /\ \A j \in 1..(i - 1) : knowledge_base[j].chapter # "18.66"
  ELSE best

\* main.py:168-196.  raised: GITA_KNOWLEDGE_BASE[-1] on an empty list raises
\* IndexError; otherwise teaching is the position of the returned entry.
select_teaching(q) ==
  LET words   == tokenize(q)
      qset    == Range(expand(words))
      st      == scan(qset, 1, [ best |-> 0, best_score |-> -1, scores |-> << >> ])
      best    == fallback(st.best, st.best_score)
  IN  [ words      |-> words,
        qset       |-> qset,
        scores     |-> st.scores,
        scan_best  |-> st.best,
        best_score |-> st.best_score,
        raised     |-> best = 0 /\ Len(knowledge_base) = 0,
        teaching   |-> IF best # 0 THEN best ELSE Len(knowledge_base) ]

(***************************************************************************)
(* Service start and the POST /api/ask handler, main.py:243-294            *)
(***************************************************************************)

NoRequest == [ question |-> "", conversation_id |-> None ]

NoMatch ==
  [ words |-> << >>, qset |-> {}, scores |-> << >>, scan_best |-> 0,
    best_score |-> -1, raised |-> FALSE, teaching |-> 0 ]

NoResponse == [ status |-> 0 ]

IdleScorer == [ item |-> 0, qset |-> {}, score |-> 0 ]

\* Everything but the knowledge base and the scorer: the module is being
\* loaded and no request has arrived.
InitService ==
  /\ service = "starting"
  /\ synonyms = SYNONYMS
  /\ stopwords = STOPWORDS
  /\ pc = [ p \in Contexts |-> "idle" ]
  /\ req = [ p \in Contexts |-> NoRequest ]
  /\ question = [ p \in Contexts |-> "" ]
  /\ match = [ p \in Contexts |-> NoMatch ]
  /\ answer = [ p \in Contexts |-> << >> ]
  /\ failed = [ p \in Contexts |-> FALSE ]
  /\ response = [ p \in Contexts |-> NoResponse ]
  /\ messages = EmptyBag

Init ==
  /\ InitService
  /\ knowledge_base = GITA_KNOWLEDGE_BASE
  /\ scorer = IdleScorer

\* Loading the module builds the tables and the app, then uvicorn serves
\* (main.py:10-18, 36-159, 297-301); nothing inspects the tables.
Startup ==
  /\ service = "starting"
  /\ service' = "serving"
  /\ UNCHANGED << knowledge_base, synonyms, stopwords, pc, req, question,
                  match, answer, failed, response, messages, scorer >>

\* AskRequest validation (main.py:21-23) and main.py:245-247.
Receive(p, q, c) ==
  /\ service = "serving"
  /\ pc[p] = "idle"
  /\ req' = [ req EXCEPT ![p] = [ question |-> q, conversation_id |-> c ] ]
  /\ IF Len(q) < 2
     THEN /\ response' = [ response EXCEPT ![p] = [ status |-> 422 ] ]
          /\ pc' = [ pc EXCEPT ![p] = "done" ]
          /\ UNCHANGED question
     ELSE IF Len(strip(q)) < 2
     THEN /\ response' = [ response EXCEPT ![p] =
                             [ status |-> 400, detail |-> "Question is too short" ] ]
          /\ pc' = [ pc EXCEPT ![p] = "done" ]
          /\ UNCHANGED question
     ELSE /\ question' = [ question EXCEPT ![p] = strip(q) ]
          /\ pc' = [ pc EXCEPT ![p] = "select" ]
          /\ UNCHANGED response
  /\ UNCHANGED << service, knowledge_base, synonyms, stopwords, match, answer,
                  failed, messages, scorer >>

\* main.py:252-259: the answer, as the sequence of the concatenated parts.
compose(quest, teaching) ==
  << "Dear Arjuna, you ask: '", quest, "'. Listen with a tranquil heart. ",
     teaching.teaching,
     " Remember Me and move forward step by step; where I am remembered, fear cannot stay." >>

\* Variant of Select that moves the chosen entry to the front of the shared
\* knowledge base.
Select_reorders(p) ==
  /\ pc[p] = "select"
  /\ LET m == select_teaching(question[p])
         t == m.teaching
     IN  /\ match' = [ match EXCEPT ![p] = [ m EXCEPT !.teaching = 1 ] ]
         /\ knowledge_base' =
              << knowledge_base[t] >>
              \o SubSeq(knowledge_base, 1, t - 1)
              \o SubSeq(knowledge_base, t + 1, Len(knowledge_base))
         /\ answer' = [ answer EXCEPT ![p] =
                          compose(question[p], knowledge_base[t]) ]
         /\ pc' = [ pc EXCEPT ![p] = "write_user" ]
  /\ UNCHANGED << service, synonyms, stopwords, req, question, failed,
                  response, messages, scorer >>

\* main.py:249-259.  An exception of select_teaching leaves the handler and
\* the framework answers 500.
Select(p) ==
  /\ pc[p] = "select"
  /\ LET m == select_teaching(question[p])
     IN  /\ match' = [ match EXCEPT ![p] = m ]
         /\ IF m.raised
            THEN /\ response' = [ response EXCEPT ![p] = [ status |-> 500 ] ]
                 /\ pc' = [ pc EXCEPT ![p] = "done" ]
                 /\ UNCHANGED answer
            ELSE /\ answer' = [ answer EXCEPT ![p] =
                                  compose(question[p], knowledge_base[m.teaching]) ]
                 /\ pc' = [ pc EXCEPT ![p] = "write_user" ]
                 /\ UNCHANGED response
  /\ UNCHANGED << service, knowledge_base, synonyms, stopwords, req, question,
                  failed, messages, scorer >>

\* main.py:263
conversation_id(p) ==
  IF req[p].conversation_id = None \/ req[p].conversation_id = ""
  THEN None ELSE req[p].conversation_id

\* create_document("message", doc) of the database module: stores doc in
\* the collection or raises.
create_document(collection, doc, outcome) ==
  IF outcome = "raise" THEN collection ELSE collection (+) SetToBag({ doc })

\* Variant of WriteUser in which the exception leaves the handler.
WriteUser_propagates(p, outcome) ==
  /\ pc[p] = "write_user"
  /\ messages' = create_document(messages,
                   [ role |-> "user", content |-> question[p],
                     conversation_id |-> conversation_id(p) ], outcome)
  /\ IF outcome = "ok"
     THEN /\ pc' = [ pc EXCEPT ![p] = "write_krishna" ]
          /\ UNCHANGED << failed, response >>
     ELSE /\ pc' = [ pc EXCEPT ![p] = "done" ]
          /\ failed' = [ failed EXCEPT ![p] = TRUE ]
          /\ response' = [ response EXCEPT ![p] = [ status |-> 500 ] ]
  /\ UNCHANGED << service, knowledge_base, synonyms, stopwords, req, question,
                  match, answer, scorer >>

\* Variant of WriteUser with a try block of its own: the answer is written
\* even when the question was not.
WriteUser_own_try(p, outcome) ==
  /\ pc[p] = "write_user"
  /\ messages' = create_document(messages,
                   [ role |-> "user", content |-> question[p],
                     conversation_id |-> conversation_id(p) ], outcome)
  /\ pc' = [ pc EXCEPT ![p] = "write_krishna" ]
  /\ failed' = [ failed EXCEPT ![p] = (outcome # "ok") ]
  /\ UNCHANGED << service, knowledge_base, synonyms, stopwords, req, question,
                  match, answer, response, scorer >>

\* main.py:262-271, 285-286
WriteUser(p, outcome) ==
  /\ pc[p] = "write_user"
  /\ messages' = create_document(messages,
                   [ role |-> "user", content |-> question[p],
                     conversation_id |-> conversation_id(p) ], outcome)
  /\ IF outcome = "ok"
     THEN /\ pc' = [ pc EXCEPT ![p] = "write_krishna" ]
          /\ UNCHANGED failed
     ELSE /\ pc' = [ pc EXCEPT ![p] = "respond" ]
          /\ failed' = [ failed EXCEPT ![p] = TRUE ]
  /\ UNCHANGED << service, knowledge_base, synonyms, stopwords, req, question,
                  match, answer, response, scorer >>

\* main.py:272-286
WriteKrishna(p, outcome) ==
  /\ pc[p] = "write_krishna"
  /\ LET teaching == knowledge_base[match[p].teaching]
     IN  messages' = create_document(messages,
                       [ role |-> "krishna", content |-> answer[p],
                         image_url |-> teaching.image_url,
                         conversation_id |-> conversation_id(p),
                         meta |-> [ chapter |-> teaching.chapter,
                                    reference |-> teaching.reference ] ], outcome)
  /\ pc' = [ pc EXCEPT ![p] = "respond" ]
  /\ failed' = [ failed EXCEPT ![p] = (outcome # "ok") ]
  /\ UNCHANGED << service, knowledge_base, synonyms, stopwords, req, question,
                  match, answer, response, scorer >>

\* main.py:288-294
Respond(p) ==
  /\ pc[p] = "respond"
  /\ LET teaching == knowledge_base[match[p].teaching]
     IN  response' = [ response EXCEPT ![p] =
                         [ status |-> 200,
                           body |-> [ answer    |-> answer[p],
                                      verse     |-> teaching.verse,
                                      chapter   |-> teaching.chapter,
                                      reference |-> teaching.reference,
                                      image_url |-> teaching.image_url ] ] ]
  /\ pc' = [ pc EXCEPT ![p] = "done" ]
  /\ UNCHANGED << service, knowledge_base, synonyms, stopwords, req, question,
                  match, answer, failed, messages, scorer >>

\* Concurrent requests over a few questions.  ask_krishna is an async
\* function without an await and select_teaching is synchronous, so the
\* matcher runs without preemption; requests interleave between the steps
\* of the handler, around the calls to the store.
Next ==
  \/ Startup
  \/ \E p \in Contexts :
       \/ \E q \in FewQuestions, c \in FewConversationIds : Receive(p, q, c)
       \/ Select(p)
       \/ \E o \in Outcomes : WriteUser(p, o)
       \/ \E o \in Outcomes : WriteKrishna(p, o)
       \/ Respond(p)

Spec == Init /\ [][Next]_vars

\* One request at a time over the whole pool of questions.
NextMatcher ==
  \/ Startup
  \/ \E q \in Questions, c \in ConversationIds : Receive(1, q, c)
  \/ Select(1)
  \/ \E o \in Outcomes : WriteUser(1, o)
  \/ \E o \in Outcomes : WriteKrishna(1, o)
  \/ Respond(1)

SpecMatcher == Init /\ [][NextMatcher]_vars

(***************************************************************************)
(* The knowledge base as a deployment parameter                            *)
(***************************************************************************)

\* The shipped table without its designated fallback entry.
WithoutFallback ==
  SelectSeq(GITA_KNOWLEDGE_BASE, LAMBDA item : item.chapter # "18.66")

\* The module loaded with the shipped table, with an empty table, or with
\* a table that designates no fallback entry.
InitConfig ==
  /\ InitService
  /\ knowledge_base \in { GITA_KNOWLEDGE_BASE, << >>, WithoutFallback }
  /\ scorer = IdleScorer

SpecConfig == InitConfig /\ [][Next]_vars

(***************************************************************************)
(* The scorer on growing query sets                                        *)
(***************************************************************************)

\* Words of the explored query sets: keywords of at most and of more than
\* four letters, words that contain a keyword, a multi-word keyword, and a
\* word that matches nothing.
ScoreWords ==
  { "love", "lovely", "dog", "mind", "job", "surrender", "surrendering",
    "stress", "stressed", "devotion", "give up", "hello" }

InitScorer ==
  /\ InitService
  /\ knowledge_base = GITA_KNOWLEDGE_BASE
  /\ scorer \in { [ item |-> i, qset |-> {},
                    score |-> score(GITA_KNOWLEDGE_BASE[i], {}) ] :
                    i \in 1..Len(GITA_KNOWLEDGE_BASE) }

\* main.py:183-186 applied to the query set extended by one word.
ScoreQuery(w) ==
  /\ scorer.item # 0
  /\ w \notin scorer.qset
  /\ Cardinality(scorer.qset) < MaxQuery
  /\ scorer' = [ scorer EXCEPT
                   !.qset = @ \cup { w },
                   !.score = score(knowledge_base[scorer.item],
                                   scorer.qset \cup { w }) ]
  /\ UNCHANGED << service, knowledge_base, synonyms, stopwords, pc, req,
                  question, match, answer, failed, response, messages >>

NextScorer == \E w \in ScoreWords : ScoreQuery(w)

SpecScorer == InitScorer /\ [][NextScorer]_vars

(***************************************************************************)
(* Properties                                                              *)
(***************************************************************************)

\* select_teaching has returned an entry in context p.
Returned(p) ==
  /\ pc[p] \in { "write_user", "write_krishna", "respond", "done" }
  /\ match[p].teaching # 0

Entry(p) == knowledge_base[match[p].teaching]

Entries == 1..Len(knowledge_base)

\* The highest score the loop computed in context p.
BestOf(p) ==
  CHOOSE m \in Range(match[p].scores) : \A x \in Range(match[p].scores) : x <= m

\* The earliest entry with the highest score.
EarliestBest(p) ==
  CHOOSE i \in Entries :
    /\ match[p].scores[i] = BestOf(p)
    /\ \A j \in 1..(i - 1) : match[p].scores[j] < BestOf(p)

\* C1: whenever no entry scores above 0 (in particular when the query set
\* is empty), select_teaching returns the fallback entry, chapter "18.66",
\* and not the entry its scan had picked.
C1_FallbackWithoutSignal ==
  \A p \in Contexts :
    Returned(p) =>
      /\ (match[p].qset = {} => \A i \in Entries : match[p].scores[i] <= 0)
      /\ (\A i \in Entries : match[p].scores[i] <= 0) =>
           /\ Entry(p).chapter = "18.66"
           /\ match[p].teaching # match[p].scan_best

\* A question of stopwords and punctuation only was answered with the
\* fallback entry.
C1_Witness ==
  \E p \in Contexts :
    /\ Returned(p)
    /\ req[p].question = "the a of it"
    /\ match[p].words = << >>
    /\ match[p].scan_best = 1
    /\ Entry(p).chapter = "18.66"

\* C2 as stated: for every question, the returned entry is the earliest
\* entry with the highest score.
C2_EarliestBestAlways ==
  \A p \in Contexts :
    Returned(p) =>
      /\ match[p].teaching = EarliestBest(p)
      /\ match[p].scores[match[p].teaching] = BestOf(p)

\* C2 amended: for every question whose highest score is above 0, the
\* returned entry is the earliest entry with the highest score, a later
\* entry with an equal score never replaces it; for every question the
\* returned entry has the highest score.
C2_EarliestBestWithSignal ==
  \A p \in Contexts :
    Returned(p) =>
      /\ match[p].scores[match[p].teaching] = BestOf(p)
      /\ BestOf(p) > 0 => match[p].teaching = EarliestBest(p)

\* Two entries share a highest score above 0 and the earlier one was
\* returned.
C2_Witness ==
  \E p \in Contexts :
    /\ Returned(p)
    /\ BestOf(p) > 0
    /\ \E i, j \in Entries :
         /\ i < j
         /\ match[p].scores[i] = BestOf(p)
         /\ match[p].scores[j] = BestOf(p)
         /\ match[p].teaching = i

\* The clusters a word belongs to, as canonical token or alias.
ClustersOf(m) ==
  { c \in 1..Len(synonyms) : m = synonyms[c].k \/ m \in Range(synonyms[c].syns) }

\* C3: a question that consists of one member of a synonym cluster yields
\* a query set with the canonical token and every alias of the cluster, and
\* every entry that has the canonical token as keyword scores at least 1.
C3_SynonymClosure ==
  \A p \in Contexts :
    Returned(p) =>
      \A c \in ClustersOf(req[p].question) :
        /\ synonyms[c].k \in match[p].qset
        /\ Range(synonyms[c].syns) \subseteq match[p].qset
        /\ \A i \in Entries :
             synonyms[c].k \in Range(knowledge_base[i].keywords)
               => match[p].scores[i] >= 1

\* The number of query words that contain k.
Containing(k, qset) == Cardinality({ w \in qset : substring(k, w) })

\* Exact and partial credit of the keywords keywords[n..], one at a time.
RECURSIVE Credit(_, _, _)
Credit(keywords, n, qset) ==
  IF n > Len(keywords) THEN 0
  ELSE (IF keywords[n] \in qset THEN 1 ELSE 0)
       + (IF Len(keywords[n]) > 4 THEN Containing(keywords[n], qset) ELSE 0)
       + Credit(keywords, n + 1, qset)

\* C4: the score of every entry is the number of its keywords in the query
\* set plus, for each keyword longer than 4, the number of query words that
\* contain it; a keyword of length <= 4 adds no partial credit.
C4_ScoreIsExactPlusPartial ==
  \A p \in Contexts :
    Returned(p) =>
      \A i \in Entries :
        match[p].scores[i] = Credit(knowledge_base[i].keywords, 1, match[p].qset)

\* A query word properly contains a keyword of at most 4 letters of an
\* entry that scored 0, and another query word properly contains a longer
\* keyword of an entry that scored 1.
C4_Witness ==
  \E p \in Contexts :
    /\ Returned(p)
    /\ \E i \in Entries :
         /\ match[p].scores[i] = 0
         /\ \E k \in Range(knowledge_base[i].keywords), w \in match[p].qset :
              Len(k) <= 4 /\ k # w /\ substring(k, w)
    /\ \E i \in Entries :
         /\ match[p].scores[i] = 1
         /\ \E k \in Range(knowledge_base[i].keywords), w \in match[p].qset :
              Len(k) > 4 /\ k # w /\ substring(k, w)

\* The knowledge base is empty or designates no fallback entry.
Misconfigured ==
  \A i \in Entries : knowledge_base[i].chapter # "18.66"

Accepted(p) == Len(req[p].question) >= 2 /\ Len(strip(req[p].question)) >= 2

\* C6: an accepted request ends with a successful response whatever the
\* create_document calls did, and the response is the one a request with
\* the same question gets when both writes succeed.
C6_WriteFailureDoesNotFailRequest ==
  \A p \in Contexts :
    (pc[p] = "done" /\ Accepted(p)) =>
      /\ response[p].status = 200
      /\ \A o \in Contexts :
           (pc[o] = "done" /\ question[o] = question[p] /\ Accepted(o))
             => response[o] = response[p]

\* Two requests with the same question are done, one after a failed write
\* and one after two successful writes.
C6_Witness ==
  \E p, o \in Contexts :
    /\ pc[p] = "done" /\ pc[o] = "done"
    /\ Accepted(p) /\ question[o] = question[p]
    /\ failed[p] /\ ~failed[o]
    /\ response[p].status = 200

\* The chapter of the duty-themed entry is "2.47".
DutyEntry == CHOOSE i \in Entries : knowledge_base[i].chapter = "2.47"

\* C7: for the question about the job, the query set holds job, duty, work,
\* career, study, responsibility and task, the duty entry scores strictly
\* highest, and it is the entry returned.
C7_JobQuestionSelectsDuty ==
  \A p \in Contexts :
    (Returned(p) /\ question[p] = JobQuestion) =>
      /\ { "job", "duty", "work", "career", "study", "responsibility", "task" }
           \subseteq match[p].qset
      /\ \A i \in Entries \ { DutyEntry } :
           match[p].scores[i] < match[p].scores[DutyEntry]
      /\ Entry(p).chapter = "2.47"

\* The question about the job was matched.
C7_Witness ==
  \E p \in Contexts :
    /\ Returned(p)
    /\ req[p].question = JobQuestion
    /\ match[p].words = << "stressed", "about", "job", "what" >>
    /\ match[p].teaching = DutyEntry

\* C8: extending the query set never lowers the score of an entry, and a
\* new word that is a keyword of the entry raises it by at least 1.
C8_ScoreMonotone ==
  [][ (scorer'.item = scorer.item /\ scorer.qset \subseteq scorer'.qset) =>
        /\ scorer'.score >= scorer.score
        /\ ((scorer'.qset \ scorer.qset)
              \cap Range(knowledge_base[scorer.item].keywords) # {}
              => scorer'.score >= scorer.score + 1) ]_vars

\* A query set of several words, keywords of the entry and others, was
\* scored.
C8_Witness ==
  /\ scorer.item # 0
  /\ Cardinality(scorer.qset) = MaxQuery
  /\ scorer.qset \cap Range(knowledge_base[scorer.item].keywords) # {}
  /\ scorer.qset \ Range(knowledge_base[scorer.item].keywords) # {}
  /\ scorer.score >= 2

\* C9: whatever the interleaving, two invocations with the same question
\* return the same entry, and no invocation modifies the static tables.
C9_DependsOnlyOnQuestion ==
  /\ knowledge_base = GITA_KNOWLEDGE_BASE
  /\ synonyms = SYNONYMS
  /\ stopwords = STOPWORDS
  /\ \A p, o \in Contexts :
       (Returned(p) /\ Returned(o) /\ question[p] = question[o])
         => /\ Entry(p).chapter = Entry(o).chapter
            /\ match[p] = match[o]

\* Two contexts at different positions of the handler have matched the same
\* question.
C9_Witness ==
  \E p, o \in Contexts :
    /\ p # o
    /\ Returned(p) /\ Returned(o)
    /\ question[p] = question[o]
    /\ pc[p] = "done" /\ pc[o] = "write_user"

\* The stored documents of a role in a conversation.
RECURSIVE CountOf(_, _, _)
CountOf(docs, role, cid) ==
  IF docs = {} THEN 0
  ELSE LET d == CHOOSE x \in docs : TRUE
       IN  (IF d.role = role /\ d.conversation_id = cid
            THEN CopiesIn(d, messages) ELSE 0)
           + CountOf(docs \ { d }, role, cid)

Stored(role, cid) == CountOf(BagToSet(messages), role, cid)

\* C10: the store never holds more 'krishna' than 'user' messages of a
\* conversation, and the question of a request rejected as too short is
\* never stored.
C10_AnswerOnlyAfterQuestion ==
  /\ \A cid \in ConversationIds : Stored("krishna", cid) <= Stored("user", cid)
  /\ \A p \in Contexts :
       (pc[p] = "done" /\ response[p].status \in { 400, 422 }) =>
         \A d \in BagToSet(messages) :
           d.role = "user" => d.content # strip(req[p].question)

\* A conversation holds an answer and more questions than answers.
C10_Witness ==
  \E cid \in ConversationIds :
    /\ Stored("krishna", cid) >= 1
    /\ Stored("user", cid) > Stored("krishna", cid)

====
